---- MODULE Spec2Model ----
(***************************************************************************)
(* Model of src/scripts/main.ts: the line-delimited JSON-RPC loop on       *)
(* stdin/stdout, the image generation pipeline (provider call, decoding,   *)
(* persistence) and the shutdown of the resource HTTP server.              *)
(*                                                                         *)
(* Text is modelled as a sequence of string fragments, so that template    *)
(* literals are concatenations (\o) and "contains" is a fragment test.     *)
(* A JavaScript value is a pair <<type, text>>.                            *)
(***************************************************************************)
EXTENDS Integers, Sequences, FiniteSets, TLC

\* ---------------------------------------------------------------- bounds
MaxLines == 2     \* input lines the host sends under the "load" profile
MaxPreds == 2     \* predictions in one provider response
MaxConns == 1     \* HTTP connections open at once
MaxTime  == 1     \* seconds the wall clock advances

\* ------------------------------------------------------ JavaScript values
Undef    == <<"undefined", "undefined">>
Str(s)   == <<"string", s>>
Num(s)   == <<"number", s>>

\* JavaScript truthiness of a value (used by `&&`, `||` and `if`)
Truthy(v) ==
    /\ v # Undef
    /\ v # Str("")
    /\ v # Num("0")

\* Interpolation of a value in a template literal
ToText(v) == v[2]

RECURSIVE Join(_, _)
\* Array.prototype.join on an array of text fragments sequences
Join(parts, sep) ==
    IF Len(parts) = 0 THEN <<>>
    ELSE IF Len(parts) = 1 THEN parts[1]
    ELSE parts[1] \o <<sep>> \o Join(Tail(parts), sep)

Contains(text, frag) == \E k \in 1..Len(text) : text[k] = frag

\* text has `sub` as a contiguous run of fragments
HasRun(text, sub) ==
    \E k \in 0..(Len(text) - Len(sub)) :
        \A j \in 1..Len(sub) : text[k + j] = sub[j]

\* --------------------------------------------------------- configuration
\* main(): process.env.SERVER_PORT || '9981', then parseInt(.., 10)
PortTexts == {"", "8080", "80abc", "abc"}
NaN == -1
ParseInt(s) ==
    CASE s = "8080"  -> 8080
      [] s = "9981"  -> 9981
      [] s = "80abc" -> 80
      [] OTHER       -> NaN

DefaultPort == "9981"
DefaultAddr == "127.0.0.1"

OrDefault(s, d) == IF s # "" THEN s ELSE d

Envs == [GEMINI_API_KEY : {"", "k3y"}, SERVER_PORT : PortTexts,
         IMAGE_RESOURCE_SERVER_ADDR : {"", "img.example"}, dirsOk : BOOLEAN]

GoodEnv == [GEMINI_API_KEY |-> "k3y", SERVER_PORT |-> "",
            IMAGE_RESOURCE_SERVER_ADDR |-> "", dirsOk |-> TRUE]

\* ------------------------------------------------------------ input lines
\* A line of stdin, by what JSON.parse makes of it.  json = "bad": not JSON;
\* "null": the JSON value null; "scalar": a number, string, boolean or array
\* (destructuring yields undefined for id, method, params); "object".
NoParams == [present |-> FALSE, prompt |-> Undef, aspect_ratio |-> Undef]

Params(p, ar) == [present |-> TRUE, prompt |-> p, aspect_ratio |-> ar]

RawLine(j) == [json |-> j, hasId |-> FALSE, method |-> Undef, params |-> NoParams]

Request(h, m, p) == [json |-> "object", hasId |-> h, method |-> m, params |-> p]

SUPPORTED_ASPECT_RATIOS == <<"1:1", "3:4", "4:3", "9:16", "16:9">>

Supported == {SUPPORTED_ASPECT_RATIOS[k] : k \in 1..Len(SUPPORTED_ASPECT_RATIOS)}

AspectValues ==
    {Undef, Str(""), Str("2:1"), Num("0"), Num("7")} \cup {Str(s) : s \in Supported}

Prompts == {Undef, Str("a red cube")}

AllParams == {NoParams} \cup {Params(p, ar) : p \in Prompts, ar \in AspectValues}

\* every shape of line, one at a time (profile "call")
CallLines ==
    {RawLine("bad"), RawLine("null"), RawLine("scalar")}
    \cup {Request(h, m, NoParams) : h \in BOOLEAN, m \in {Undef, Str("get_info"), Str("foo")}}
    \cup {Request(h, Str("generate_image"), p) : h \in BOOLEAN, p \in AllParams}

\* representative lines for overlapping requests (profile "load")
LoadLines ==
    {RawLine("bad"),
     Request(TRUE, Str("get_info"), NoParams),
     Request(TRUE, Str("foo"), NoParams),
     Request(TRUE, Str("generate_image"), NoParams),
     Request(TRUE, Str("generate_image"), Params(Str("a red cube"), Str("16:9"))),
     Request(TRUE, Str("generate_image"), Params(Str("a red cube"), Str("2:1")))}

\* ----------------------------------------------------- provider responses
\* The raw body is a sequence of tokens.  "G" is a prediction with a string
\* bytesBase64Encoded, "B" a prediction without one.
RECURSIVE PredSeqs(_)
PredSeqs(n) ==
    IF n = 0 THEN {<<>>}
    ELSE LET shorter == PredSeqs(n - 1)
         IN  shorter \cup {Append(s, p) : s \in {t \in shorter : Len(t) = n - 1}, p \in {"G", "B"}}

Bodies ==
    {<<"<html>">>, <<"null">>}
    \cup {<<"{">> \o e \o p \o <<"}">> :
            e \in {<<>>, <<"error:boom">>},
            p \in {<<>>} \cup {<<"predictions">> \o s : s \in PredSeqs(MaxPreds)}}

NetFail == [net |-> FALSE, status |-> 0, body |-> <<>>]

Reply(st, b) == [net |-> TRUE, status |-> st, body |-> b]

AllReplies == {NetFail} \cup {Reply(st, b) : st \in {200, 500}, b \in Bodies}

LoadReplies ==
    {NetFail, Reply(500, <<"<html>">>), Reply(200, <<"{", "}">>),
     Reply(200, <<"{", "predictions", "G", "}">>)}

\* two overlapping generations of two images each (profile "pair")
PairLines == {Request(TRUE, Str("generate_image"), Params(Str("a red cube"), Str("16:9")))}

PairReplies == {Reply(200, <<"{", "predictions", "G", "G", "}">>)}

\* JSON.parse(responseText) and the fields read from it (main.ts 310-323)
IsJson(b)     == b[1] \in {"null", "{"}
IsNullJson(b) == b[1] = "null"
HasError(b)   == Contains(b, "error:boom")
IsPred(t)     == t \in {"G", "B"}
Predictions(b) == SelectSeq(b, IsPred)

Tokens == {"tokA", "tokB"}

\* ------------------------------------------------------------------ state
VARIABLES
    world,      \* what the host may send and the provider may answer
    env,        \* process.env and the outcome of creating the directories
    proc,       \* "starting", "serving", "exited"
    exitCode,   \* status passed to process.exit, NoExit while running
    httpState,  \* httpServer: "off", "listening", "closing", "closed"
    conns,      \* HTTP connections currently open on httpServer
    stdinOpen,  \* the readline interface has not emitted 'close'
    lines,      \* the lines read so far, in order
    handlers,   \* one invocation of the 'line' callback per line read
    output,     \* the lines written to process.stdout, in order
    disk,       \* the images directory: the files in it
    netCalls,   \* the provider requests issued by fetch, in order
    now,        \* the wall clock, in seconds
    writes,     \* the calls of fs.writeFile made so far
    listing,    \* the answer a client got from GET /list-images
    got         \* the answer that client got from GET /images/<filename>

vars == <<world, env, proc, exitCode, httpState, conns, stdinOpen, lines,
          handlers, output, disk, netCalls, now, writes, listing, got>>

NoExit == 99

NoListing == [done |-> FALSE, names |-> {}]

NoGot == [done |-> FALSE, name |-> <<>>, body |-> {}]

\* "boot": any environment, one request; "call": one line of any
\* shape and any provider answer; "load": overlapping requests; "pair":
\* two overlapping generations with two predictions each.
Profiles == {"boot", "call", "load", "pair"}

HostLines ==
    CASE world = "boot" -> {Request(TRUE, Str("get_info"), NoParams)} \cup PairLines
      [] world = "call" -> CallLines
      [] world = "pair" -> PairLines
      [] OTHER          -> LoadLines

HostMaxLines ==
    CASE world = "load" -> MaxLines
      [] world = "pair" -> 2
      [] OTHER          -> 1

ProviderReplies ==
    CASE world = "boot" -> {NetFail}
      [] world = "call" -> AllReplies
      [] world = "pair" -> PairReplies
      [] OTHER          -> LoadReplies

HostEnvs == IF world = "boot" THEN Envs ELSE {GoodEnv}

\* an HTTP client lists and fetches images under profile "call" only
HostBrowses == world = "call"

Init ==
    /\ world \in Profiles
    /\ env \in HostEnvs
    /\ proc = "starting"
    /\ exitCode = NoExit
    /\ httpState = "off"
    /\ conns = 0
    /\ stdinOpen = TRUE
    /\ lines = <<>>
    /\ handlers = <<>>
    /\ output = <<>>
    /\ disk = {}
    /\ netCalls = <<>>
    /\ now = 0
    /\ writes = {}
    /\ listing = NoListing
    /\ got = NoGot

\* ---------------------------------------------------------------- startup
serverPort == ParseInt(OrDefault(env.SERVER_PORT, DefaultPort))

imageResourceServerAddr == OrDefault(env.IMAGE_RESOURCE_SERVER_ADDR, DefaultAddr)

StartupFailsNoKeyCheck ==
    \/ ~env.dirsOk
    \/ serverPort = NaN

\* main() up to the registration of the handlers (main.ts 378-513)
StartupFails ==
    \/ ~env.dirsOk
    \/ serverPort = NaN
    \/ env.GEMINI_API_KEY = ""

Main ==
    /\ proc = "starting"
    /\ IF StartupFails
       THEN /\ proc' = "exited"
            /\ exitCode' = 1
            /\ UNCHANGED httpState
       ELSE /\ proc' = "serving"
            /\ httpState' = "listening"
            /\ UNCHANGED exitCode
    /\ UNCHANGED <<world, env, conns, stdinOpen, lines, handlers, output,
                   disk, netCalls, now, writes, listing, got>>

\* ------------------------------------------------------------ text values
ServerInfoStateful ==
    <<"server_info", "imagen3-mcp", "0.1.0", "instructions", ToString(Len(output))>>

\* ImageGenerationServer.getInfo(): the static descriptor
ServerInfo == <<"server_info", "imagen3-mcp", "0.1.0", "instructions", "capabilities">>

SafetyText == "No images were generated. This might be due to the image not passing Google's safety review."

\* SUPPORTED_ASPECT_RATIOS.includes(v): SameValueZero against five strings
Includes(v) == v[1] = "string" /\ v[2] \in Supported

\* the guard of generate_image's validation (main.ts 85)
Rejected(ar) == Truthy(ar) /\ ~Includes(ar)

InvalidText(ar) ==
    <<"Invalid aspect ratio: ", ToText(ar), ", supported values are: ">>
    \o Join([k \in 1..Len(SUPPORTED_ASPECT_RATIOS) |-> <<SUPPORTED_ASPECT_RATIOS[k]>>], ", ")

\* the catch of generate_image (main.ts 105-108)
SoftError(msg) == <<"Error generating image: ">> \o msg

\* `${id}_${timestamp}.png` (main.ts 333-335)
Stamp(t) == ToString(t)

FilenameStampOnly(tok, ts) == <<"img", "_", ts, ".png">>

Filename(tok, ts) == <<tok, "_", ts, ".png">>

NoFile == Filename("", "")

Url(fn) == <<"http://", imageResourceServerAddr, ":", ToString(serverPort), "/images/">> \o fn

UrlsFirstOnly(fns) == IF Len(fns) = 0 THEN <<>> ELSE Url(fns[1])

\* filenames.map(...).join("\n") (main.ts 98-100)
Urls(fns) == Join([k \in 1..Len(fns) |-> Url(fns[k])], "\n")

OkAlways(status) == TRUE

\* response.ok
Ok(status) == status >= 200 /\ status <= 299

FetchErrorNoEmptyCheck(r) ==
    IF ~r.net THEN <<"fetch failed">>
    ELSE IF ~Ok(r.status)
        THEN <<"Gemini API request failed with status ", ToString(r.status), ": ">> \o r.body
    ELSE IF ~IsJson(r.body)
        THEN <<"Failed to parse Gemini response: ", "Unexpected token", ". The response was: ">> \o r.body
    ELSE IF IsNullJson(r.body)
        THEN <<"Cannot read properties of null (reading 'error')">>
    ELSE IF HasError(r.body)
        THEN <<"Gemini API Error: ", "boom">>
    ELSE <<>>

FetchErrorNoErrorCheck(r) ==
    IF ~r.net THEN <<"fetch failed">>
    ELSE IF ~Ok(r.status)
        THEN <<"Gemini API request failed with status ", ToString(r.status), ": ">> \o r.body
    ELSE IF ~IsJson(r.body)
        THEN <<"Failed to parse Gemini response: ", "Unexpected token", ". The response was: ">> \o r.body
    ELSE IF IsNullJson(r.body)
        THEN <<"Cannot read properties of null (reading 'error')">>
    ELSE IF Len(Predictions(r.body)) = 0
        THEN <<SafetyText>>
    ELSE <<>>

\* what generateImageFromGemini throws between the fetch and the loop
\* (main.ts 298-327); <<>> when it throws nothing
FetchError(r) ==
    IF ~r.net THEN <<"fetch failed">>
    ELSE IF ~Ok(r.status)
        THEN <<"Gemini API request failed with status ", ToString(r.status), ": ">> \o r.body
    ELSE IF ~IsJson(r.body)
        THEN <<"Failed to parse Gemini response: ", "Unexpected token", ". The response was: ">> \o r.body
    ELSE IF IsNullJson(r.body)
        THEN <<"Cannot read properties of null (reading 'error')">>
    ELSE IF HasError(r.body)
        THEN <<"Gemini API Error: ", "boom">>
    ELSE IF Len(Predictions(r.body)) = 0
        THEN <<SafetyText>>
    ELSE <<>>

DecodeError == <<"The first argument must be of type string or an instance of Buffer">>

OpenError(fn)  == <<"EACCES: permission denied, open ">> \o fn

WriteError(fn) == <<"ENOSPC: no space left on device, write">>

\* ------------------------------------------------------------- the files
File(fn, i, k, full) == [name |-> fn, src |-> i, k |-> k, full |-> full]

Names(d) == {f.name : f \in d}

PutTruncated(d, f) == {g \in d : g.name # f.name} \cup {[f EXCEPT !.full = FALSE]}

\* fs.writeFile opens with flag 'w': an existing file of that name is replaced
Put(d, f) == {g \in d : g.name # f.name} \cup {f}

\* ------------------------------------------------------------ the handler
Handler(id, pc) ==
    [pc |-> pc, id |-> id, reply |-> NetFail, rest |-> <<>>, cur |-> NoFile,
     filenames |-> <<>>, fsError |-> FALSE]

\* JSON.stringify({ id, result }) / JSON.stringify({ id, error: { message } })
Response(i, id, kind, text) == [src |-> i, id |-> id, kind |-> kind, text |-> text]

ResultIdShared(i, id) == IF Len(lines) >= i THEN lines[Len(lines)].id ELSE id

\* id of the success path: the `id` destructured from the request (main.ts 483)
ResultId(i, id) == id

ErrorIdLost(i, ln) == Undef

\* id of the error path: request.id of the line parsed again (main.ts 502-503)
ErrorId(i, ln) == ln.id

DispatchAckBad(ln) ==
    IF ln.json = "bad"
        THEN [step |-> "respond", kind |-> "error", text |-> <<"Unexpected token">>]
    ELSE IF ln.json = "null"
        THEN [step |-> "reject", kind |-> "error", text |-> <<>>]
    ELSE IF ln.method = Str("get_info")
        THEN [step |-> "respond", kind |-> "result", text |-> ServerInfo]
    ELSE IF ln.method = Str("generate_image")
        THEN IF ~ln.params.present
                THEN [step |-> "respond", kind |-> "error",
                      text |-> <<"Cannot read properties of undefined (reading 'aspect_ratio')">>]
             ELSE IF Rejected(ln.params.aspect_ratio)
                THEN [step |-> "respond", kind |-> "result",
                      text |-> InvalidText(ln.params.aspect_ratio)]
             ELSE IF ln.params.prompt = Undef
                THEN [step |-> "respond", kind |-> "result",
                      text |-> SoftError(<<"Cannot read properties of undefined (reading 'length')">>)]
             ELSE IF ~Truthy(Str(env.GEMINI_API_KEY))
                THEN [step |-> "respond", kind |-> "result",
                      text |-> SoftError(<<"GEMINI_API_KEY environment variable not set">>)]
             ELSE [step |-> "fetch", kind |-> "result", text |-> <<>>]
    ELSE [step |-> "respond", kind |-> "error",
          text |-> <<"Unknown method: ", ToText(ln.method)>>]

\* The synchronous part of the 'line' callback, up to its first pending
\* await (main.ts 480-504 with 81-96 and 279-302).
\*   "reject":  the callback's promise is rejected, nothing is written
\*   "respond": one line is written
\*   "fetch":   the provider request has been issued
Dispatch(ln) ==
    IF ln.json \in {"bad", "null"}
        THEN [step |-> "reject", kind |-> "error", text |-> <<>>]
    ELSE IF ln.method = Str("get_info")
        THEN [step |-> "respond", kind |-> "result", text |-> ServerInfo]
    ELSE IF ln.method = Str("generate_image")
        THEN IF ~ln.params.present
                THEN [step |-> "respond", kind |-> "error",
                      text |-> <<"Cannot read properties of undefined (reading 'aspect_ratio')">>]
             ELSE IF Rejected(ln.params.aspect_ratio)
                THEN [step |-> "respond", kind |-> "result",
                      text |-> InvalidText(ln.params.aspect_ratio)]
             ELSE IF ln.params.prompt = Undef
                THEN [step |-> "respond", kind |-> "result",
                      text |-> SoftError(<<"Cannot read properties of undefined (reading 'length')">>)]
             ELSE IF ~Truthy(Str(env.GEMINI_API_KEY))
                THEN [step |-> "respond", kind |-> "result",
                      text |-> SoftError(<<"GEMINI_API_KEY environment variable not set">>)]
             ELSE [step |-> "fetch", kind |-> "result", text |-> <<>>]
    ELSE [step |-> "respond", kind |-> "error",
          text |-> <<"Unknown method: ", ToText(ln.method)>>]

\* the line as the callback sees it: the i-th request carries the id i
Line(l, i) ==
    [json |-> l.json, id |-> IF l.hasId THEN Num(ToString(i)) ELSE Undef,
     method |-> l.method, params |-> l.params]

ReadLineSerialized(l) ==
    /\ proc = "serving"
    /\ stdinOpen
    /\ Len(lines) < HostMaxLines
    /\ \A j \in 1..Len(handlers) : handlers[j].pc \in {"done", "rejected"}
    /\ LET i  == Len(lines) + 1
           ln == Line(l, i)
           d  == Dispatch(ln)
       IN  /\ lines' = Append(lines, ln)
           /\ CASE d.step = "reject" ->
                    \* unhandled rejection: the process is terminated
                    /\ handlers' = Append(handlers, Handler(ln.id, "rejected"))
                    /\ proc' = "exited"
                    /\ exitCode' = 1
                    /\ UNCHANGED <<output, netCalls>>
                [] d.step = "respond" ->
                    /\ handlers' = Append(handlers, Handler(ln.id, "done"))
                    /\ output' = Append(output,
                          Response(i, IF d.kind = "result" THEN ResultId(i, ln.id)
                                      ELSE ErrorId(i, ln), d.kind, d.text))
                    /\ UNCHANGED <<proc, exitCode, netCalls>>
                [] OTHER ->
                    /\ handlers' = Append(handlers, Handler(ln.id, "fetching"))
                    /\ netCalls' = Append(netCalls,
                          [src |-> i, prompt |-> ln.params.prompt,
                           aspectRatio |-> ln.params.aspect_ratio])
                    /\ UNCHANGED <<proc, exitCode, output>>
    /\ UNCHANGED <<world, env, httpState, conns, stdinOpen, disk, now, writes,
                   listing, got>>

\* rl.on('line', async (line) => ...)
ReadLine(l) ==
    /\ proc = "serving"
    /\ stdinOpen
    /\ Len(lines) < HostMaxLines
    /\ LET i  == Len(lines) + 1
           ln == Line(l, i)
           d  == Dispatch(ln)
       IN  /\ lines' = Append(lines, ln)
           /\ CASE d.step = "reject" ->
                    \* unhandled rejection: the process is terminated
                    /\ handlers' = Append(handlers, Handler(ln.id, "rejected"))
                    /\ proc' = "exited"
                    /\ exitCode' = 1
                    /\ UNCHANGED <<output, netCalls>>
                [] d.step = "respond" ->
                    /\ handlers' = Append(handlers, Handler(ln.id, "done"))
                    /\ output' = Append(output,
                          Response(i, IF d.kind = "result" THEN ResultId(i, ln.id)
                                      ELSE ErrorId(i, ln), d.kind, d.text))
                    /\ UNCHANGED <<proc, exitCode, netCalls>>
                [] OTHER ->
                    /\ handlers' = Append(handlers, Handler(ln.id, "fetching"))
                    /\ netCalls' = Append(netCalls,
                          [src |-> i, prompt |-> ln.params.prompt,
                           aspectRatio |-> ln.params.aspect_ratio])
                    /\ UNCHANGED <<proc, exitCode, output>>
    /\ UNCHANGED <<world, env, httpState, conns, stdinOpen, disk, now, writes,
                   listing, got>>

\* one call fs.writeFile(filePath, imageData): the k-th of line i, with the
\* token nanoid drew and the second of the clock (main.ts 333-340)
WriteCall(i, k, tok, t) ==
    [src |-> i, k |-> k, tok |-> tok, ts |-> t, name |-> Filename(tok, Stamp(t))]

\* generate_image returns `text`, the callback writes { id, result }
Settle(i, h, text) ==
    /\ handlers' = [handlers EXCEPT ![i] = [h EXCEPT !.pc = "done"]]
    /\ output' = Append(output, Response(i, ResultId(i, h.id), "result", text))
    /\ UNCHANGED writes

LoopSharedFilenames(i, h, tok) ==
    IF h.rest = <<>>
        THEN LET RECURSIVE Flat(_)
                 Flat(j) == IF j = 0 THEN <<>>
                            ELSE Flat(j - 1) \o (IF j = i THEN h.filenames
                                                 ELSE handlers[j].filenames)
             IN  Settle(i, h, Urls(Flat(Len(handlers))))
    ELSE IF Head(h.rest) = "B"
        THEN Settle(i, h, SoftError(DecodeError))
    ELSE /\ handlers' = [handlers EXCEPT ![i] =
                [h EXCEPT !.pc = "opening", !.cur = Filename(tok, Stamp(now))]]
         /\ writes' = writes \cup {WriteCall(i, Len(h.filenames) + 1, tok, now)}
         /\ UNCHANGED output

\* the head of one iteration of `for (const pred of predictions)`, or the
\* return after the last one (main.ts 332-348, 98-103)
Loop(i, h, tok) ==
    IF h.rest = <<>>
        THEN Settle(i, h, Urls(h.filenames))
    ELSE IF Head(h.rest) = "B"
        THEN Settle(i, h, SoftError(DecodeError))
    ELSE /\ handlers' = [handlers EXCEPT ![i] =
                [h EXCEPT !.pc = "opening", !.cur = Filename(tok, Stamp(now))]]
         /\ writes' = writes \cup {WriteCall(i, Len(h.filenames) + 1, tok, now)}
         /\ UNCHANGED output

FetchSettledRetry(i, r, tok) ==
    /\ proc = "serving"
    /\ i \in 1..Len(handlers)
    /\ handlers[i].pc = "fetching"
    /\ r \in ProviderReplies
    /\ LET h == [handlers[i] EXCEPT !.reply = r, !.rest = Predictions(r.body)]
           n == Cardinality({c \in 1..Len(netCalls) : netCalls[c].src = i})
       IN  IF ~r.net /\ n < 2
               THEN /\ netCalls' = Append(netCalls,
                          [src |-> i, prompt |-> lines[i].params.prompt,
                           aspectRatio |-> lines[i].params.aspect_ratio])
                    /\ UNCHANGED <<handlers, output, writes>>
               ELSE /\ UNCHANGED netCalls
                    /\ IF FetchError(r) # <<>>
                          THEN Settle(i, h, SoftError(FetchError(r)))
                          ELSE Loop(i, h, tok)
    /\ UNCHANGED <<world, env, proc, exitCode, httpState, conns, stdinOpen,
                   lines, disk, now, listing, got>>

\* the fetch settles: `await fetch(...)`, `await response.text()` and the
\* checks that follow (main.ts 298-327)
FetchSettled(i, r, tok) ==
    /\ proc = "serving"
    /\ i \in 1..Len(handlers)
    /\ handlers[i].pc = "fetching"
    /\ r \in ProviderReplies
    /\ LET h == [handlers[i] EXCEPT !.reply = r, !.rest = Predictions(r.body)]
       IN  IF FetchError(r) # <<>>
               THEN Settle(i, h, SoftError(FetchError(r)))
               ELSE Loop(i, h, tok)
    /\ UNCHANGED <<world, env, proc, exitCode, httpState, conns, stdinOpen,
                   lines, disk, netCalls, now, listing, got>>

\* fs.writeFile opens the file: it exists from now on, not yet complete
WriteOpen(i, ok) ==
    /\ proc = "serving"
    /\ i \in 1..Len(handlers)
    /\ handlers[i].pc = "opening"
    /\ LET h == handlers[i]
           k == Len(h.filenames) + 1
       IN  IF ok
               THEN /\ disk' = Put(disk, File(h.cur, i, k, FALSE))
                    /\ handlers' = [handlers EXCEPT ![i].pc = "writing"]
                    /\ UNCHANGED <<output, writes>>
               ELSE /\ Settle(i, [h EXCEPT !.fsError = TRUE], SoftError(OpenError(h.cur)))
                    /\ UNCHANGED disk
    /\ UNCHANGED <<world, env, proc, exitCode, httpState, conns, stdinOpen,
                   lines, netCalls, now, listing, got>>

WriteSettledRollback(i, ok, tok) ==
    /\ proc = "serving"
    /\ i \in 1..Len(handlers)
    /\ handlers[i].pc = "writing"
    /\ LET h == handlers[i]
           k == Len(h.filenames) + 1
       IN  IF ok
               THEN /\ disk' = Put(disk, File(h.cur, i, k, TRUE))
                    /\ Loop(i, [h EXCEPT !.filenames = Append(h.filenames, h.cur),
                                         !.rest = Tail(h.rest), !.cur = NoFile], tok)
               ELSE /\ Settle(i, [h EXCEPT !.fsError = TRUE], SoftError(WriteError(h.cur)))
                    /\ disk' = {f \in disk : f.src # i}
    /\ UNCHANGED <<world, env, proc, exitCode, httpState, conns, stdinOpen,
                   lines, netCalls, now, listing, got>>

\* fs.writeFile settles: the bytes are on disk, or the write failed
WriteSettled(i, ok, tok) ==
    /\ proc = "serving"
    /\ i \in 1..Len(handlers)
    /\ handlers[i].pc = "writing"
    /\ LET h == handlers[i]
           k == Len(h.filenames) + 1
       IN  IF ok
               THEN /\ disk' = Put(disk, File(h.cur, i, k, TRUE))
                    /\ Loop(i, [h EXCEPT !.filenames = Append(h.filenames, h.cur),
                                         !.rest = Tail(h.rest), !.cur = NoFile], tok)
               ELSE /\ Settle(i, [h EXCEPT !.fsError = TRUE], SoftError(WriteError(h.cur)))
                    /\ UNCHANGED disk
    /\ UNCHANGED <<world, env, proc, exitCode, httpState, conns, stdinOpen,
                   lines, netCalls, now, listing, got>>

\* ----------------------------------------------------- shutdown and HTTP
StdinCloseExitNow ==
    /\ proc = "serving"
    /\ stdinOpen
    /\ stdinOpen' = FALSE
    /\ httpState' = "closing"
    /\ proc' = "exited"
    /\ exitCode' = 0
    /\ UNCHANGED <<world, env, conns, lines, handlers, output, disk, netCalls, now,
                   writes, listing, got>>

\* rl.on('close'): httpServer.close(callback) stops the listening socket
StdinClose ==
    /\ proc = "serving"
    /\ stdinOpen
    /\ stdinOpen' = FALSE
    /\ httpState' = "closing"
    /\ UNCHANGED <<world, env, proc, exitCode, conns, lines, handlers, output,
                   disk, netCalls, now, writes, listing, got>>

HttpClosedWaitsHandlers ==
    /\ proc = "serving"
    /\ httpState = "closing"
    /\ conns = 0
    /\ \A j \in 1..Len(handlers) : handlers[j].pc \in {"done", "rejected"}
    /\ httpState' = "closed"
    /\ proc' = "exited"
    /\ exitCode' = 0
    /\ UNCHANGED <<world, env, conns, stdinOpen, lines, handlers, output,
                   disk, netCalls, now, writes, listing, got>>

\* the callback of httpServer.close: runs once no connection is left
HttpClosed ==
    /\ proc = "serving"
    /\ httpState = "closing"
    /\ conns = 0
    /\ httpState' = "closed"
    /\ proc' = "exited"
    /\ exitCode' = 0
    /\ UNCHANGED <<world, env, conns, stdinOpen, lines, handlers, output,
                   disk, netCalls, now, writes, listing, got>>

\* a client connects to app.listen(serverPort, listenAddr)
HttpConnect ==
    /\ proc = "serving"
    /\ httpState = "listening"
    /\ conns < MaxConns
    /\ conns' = conns + 1
    /\ UNCHANGED <<world, env, proc, exitCode, httpState, stdinOpen, lines,
                   handlers, output, disk, netCalls, now, writes, listing, got>>

HttpDisconnect ==
    /\ proc = "serving"
    /\ conns > 0
    /\ conns' = conns - 1
    /\ UNCHANGED <<world, env, proc, exitCode, httpState, stdinOpen, lines,
                   handlers, output, disk, netCalls, now, writes, listing, got>>

\* GET /list-images: listImages reads the directory (main.ts 449-458, 368-374)
HttpList ==
    /\ proc = "serving"
    /\ HostBrowses
    /\ conns > 0
    /\ ~listing.done
    /\ listing' = [done |-> TRUE, names |-> Names(disk)]
    /\ UNCHANGED <<world, env, proc, exitCode, httpState, conns, stdinOpen,
                   lines, handlers, output, disk, netCalls, now, writes, got>>

\* GET /images/<n> for a listed name: express.static sends the file as it
\* is on disk now, or 404 (an empty body here) if there is none (main.ts 447)
HttpGet(n) ==
    /\ proc = "serving"
    /\ conns > 0
    /\ listing.done
    /\ n \in listing.names
    /\ ~got.done
    /\ got' = [done |-> TRUE, name |-> n, body |-> {f \in disk : f.name = n}]
    /\ UNCHANGED <<world, env, proc, exitCode, httpState, conns, stdinOpen,
                   lines, handlers, output, disk, netCalls, now, writes, listing>>

\* new Date() advances
Tick ==
    /\ proc = "serving"
    /\ now < MaxTime
    /\ now' = now + 1
    /\ UNCHANGED <<world, env, proc, exitCode, httpState, conns, stdinOpen,
                   lines, handlers, output, disk, netCalls, writes, listing, got>>

Next ==
    \/ Main
    \/ \E l \in HostLines : ReadLine(l)
    \/ \E i \in 1..Len(handlers), r \in ProviderReplies, tok \in Tokens : FetchSettled(i, r, tok)
    \/ \E i \in 1..Len(handlers), ok \in BOOLEAN : WriteOpen(i, ok)
    \/ \E i \in 1..Len(handlers), ok \in BOOLEAN, tok \in Tokens : WriteSettled(i, ok, tok)
    \/ StdinClose
    \/ HttpClosed
    \/ HttpConnect
    \/ HttpDisconnect
    \/ HttpList
    \/ \E n \in listing.names : HttpGet(n)
    \/ Tick

Spec == Init /\ [][Next]_vars

\* The event loop runs a callback that is ready: main() runs, and the
\* callback of httpServer.close runs once the server has no connection.
\* The provider, the filesystem, the host and HTTP clients owe nothing.
Fairness == WF_vars(Main) /\ WF_vars(HttpClosed)

InitCall == Init /\ world = "call"

FairSpec == InitCall /\ [][Next]_vars /\ Fairness

\* ================================================================= claims
Handled == 1..Len(lines)

\* the response lines written for line i
Answers(i) == {k \in 1..Len(output) : output[k].src = i}

\* the 'line' callback for line i has run to its end
Finished(i) == handlers[i].pc \in {"done", "rejected"}

IsGenerate(i) == lines[i].json \in {"object", "scalar"} /\ lines[i].method = Str("generate_image")

\* line i issued a provider request
Fetched(i) == \E c \in 1..Len(netCalls) : netCalls[c].src = i

\* the provider request of line i has been answered with r
Answered(i) == Fetched(i) /\ handlers[i].pc # "fetching"

FilesOf(i) == {f \in disk : f.src = i}

\* C1: every input line whose callback has finished has exactly one response
\* line, of kind result or error, and no line ever has two.
C1_ExactlyOneResponse ==
    \A i \in Handled :
        /\ Cardinality(Answers(i)) <= 1
        /\ Finished(i) => Cardinality(Answers(i)) = 1
        /\ \A k \in Answers(i) : output[k].kind \in {"result", "error"}

\* C2: every response line carries the id of the request that produced it,
\* and its payload is the one that request's method and params produce,
\* whatever the order in which the handlers complete.
C2_IdsNeverMisassigned ==
    \A k \in 1..Len(output) :
        LET o == output[k]
            i == o.src
            d == Dispatch(lines[i])
        IN  /\ i \in Handled
            /\ o.id = lines[i].id
            /\ d.step = "respond" => o.kind = d.kind /\ o.text = d.text
            /\ d.step = "fetch" =>
                  /\ o.kind = "result"
                  /\ \/ o.text[1] = "Error generating image: "
                     \/ /\ o.text[1] = "http://"
                        /\ \A f \in 1..Len(handlers[i].filenames) :
                              HasRun(o.text, handlers[i].filenames[f])

\* two generate_image requests with distinct ids answered in reverse order
C2_Witness ==
    /\ Len(output) = 2
    /\ output[1].src = 2
    /\ output[2].src = 1
    /\ output[1].id # output[2].id
    /\ Dispatch(lines[1]).step = "fetch"
    /\ Dispatch(lines[2]).step = "fetch"

\* C3: the process terminates only on a startup failure (status 1, before
\* any line is read) or after the input stream closed (status 0); no
\* failure while handling a line terminates it.
C3_OnlyStartupOrCloseTerminates ==
    proc = "exited" =>
        \/ exitCode = 1 /\ lines = <<>>
        \/ exitCode = 0 /\ ~stdinOpen

\* C4: every answer to a generate_image invocation is {id, result}; the
\* {id, error} form is written only for other methods.
C4_GenerateAnswersOnResultChannel ==
    \A k \in 1..Len(output) :
        IsGenerate(output[k].src) => output[k].kind = "result"

\* C5: generate_image with an aspect_ratio that is present and not one of
\* the five supported values answers with the text enumerating the five
\* values, issues no provider request and writes no file.
C5_UnsupportedAspectRejected ==
    \A i \in Handled :
        (/\ IsGenerate(i)
         /\ lines[i].params.present
         /\ lines[i].params.aspect_ratio # Undef
         /\ ~Includes(lines[i].params.aspect_ratio))
        => /\ ~Fetched(i)
           /\ FilesOf(i) = {}
           /\ \A k \in Answers(i) :
                 /\ output[k].kind = "result"
                 /\ \A v \in Supported : Contains(output[k].text, v)

\* the provider answered line i with success status and a JSON object
\* without error member
GoodReply(i) ==
    /\ Answered(i)
    /\ handlers[i].reply.net
    /\ handlers[i].reply.status \in 200..299
    /\ handlers[i].reply.body[1] = "{"
    /\ ~HasError(handlers[i].reply.body)

NPred(i) == Len(Predictions(handlers[i].reply.body))

\* every prediction of the reply carries a base64 string
Decodable(i) == \A p \in 1..NPred(i) : Predictions(handlers[i].reply.body)[p] = "G"

\* text is n URLs http://<host>:<port>/images/<filename> joined by newlines,
\* each filename being a file of the images directory
IsUrlList(text, n) ==
    /\ Len(text) = 10 * n - 1
    /\ \A j \in 1..n :
          LET b == 10 * (j - 1)
          IN  /\ SubSeq(text, b + 1, b + 5) =
                   <<"http://", imageResourceServerAddr, ":", ToString(serverPort), "/images/">>
              /\ SubSeq(text, b + 6, b + 9) \in Names(disk)
              /\ text[b + 9] = ".png"
              /\ j < n => text[b + 10] = "\n"

\* C6 as stated: a successful provider response with N >= 1 predictions is
\* answered with exactly N URLs whose files exist.
C6_Original ==
    \A i \in Handled :
        (GoodReply(i) /\ NPred(i) >= 1 /\ Decodable(i) /\ Finished(i))
        => \A k \in Answers(i) : IsUrlList(output[k].text, NPred(i))

\* C6 (amended): a successful provider response with N >= 1 predictions,
\* each of which is written without a filesystem failure, is answered with
\* exactly N URLs http://<host>:<port>/images/<filename> joined by
\* newlines, and each of the N files exists when the call returns.
C6_UrlsForEveryPrediction ==
    \A i \in Handled :
        (/\ GoodReply(i) /\ NPred(i) >= 1 /\ Finished(i)
         /\ Decodable(i)
         /\ ~handlers[i].fsError)
        => /\ Cardinality(Answers(i)) = 1
           /\ \A k \in Answers(i) :
                 /\ output[k].kind = "result"
                 /\ IsUrlList(output[k].text, NPred(i))

\* a call answered with two URLs
C6_Witness ==
    \E i \in Handled :
        /\ GoodReply(i) /\ NPred(i) = 2 /\ Finished(i)
        /\ \E k \in Answers(i) : IsUrlList(output[k].text, 2)

\* C7 as stated: success status and an empty or absent prediction list
\* give the safety-review text and leave the images directory unchanged.
C7_Original ==
    \A i \in Handled :
        (/\ Answered(i) /\ handlers[i].reply.net /\ handlers[i].reply.status \in 200..299
         /\ handlers[i].reply.body[1] = "{"
         /\ NPred(i) = 0 /\ Finished(i))
        => /\ FilesOf(i) = {}
           /\ \A k \in Answers(i) : Contains(output[k].text, SafetyText)

\* C7 (amended): success status and a JSON object body without an error
\* object and with an empty or absent prediction list give the
\* safety-review text as the result and write no file.
C7_EmptyPredictionsSafetyText ==
    \A i \in Handled :
        (GoodReply(i) /\ NPred(i) = 0)
        => /\ Finished(i)
           /\ FilesOf(i) = {}
           /\ Cardinality(Answers(i)) = 1
           /\ \A k \in Answers(i) :
                 /\ output[k].kind = "result"
                 /\ output[k].text = <<"Error generating image: ", SafetyText>>

\* an answered call whose provider body had an empty prediction list
C7_Witness ==
    \E i \in Handled :
        /\ GoodReply(i) /\ NPred(i) = 0
        /\ Contains(handlers[i].reply.body, "predictions")
        /\ Answers(i) # {}

\* C8: a provider answer with a non-success status gives a result text
\* containing the status code and the raw body, and no file is written,
\* whatever the body holds.
C8_HttpFailureReported ==
    \A i \in Handled :
        (Answered(i) /\ handlers[i].reply.net /\ ~(handlers[i].reply.status \in 200..299))
        => /\ Finished(i)
           /\ FilesOf(i) = {}
           /\ handlers[i].filenames = <<>>
           /\ Cardinality(Answers(i)) = 1
           /\ \A k \in Answers(i) :
                 /\ output[k].kind = "result"
                 /\ Contains(output[k].text, ToString(handlers[i].reply.status))
                 /\ HasRun(output[k].text, handlers[i].reply.body)

\* a status 500 whose body holds valid predictions has been answered
C8_Witness ==
    \E i \in Handled :
        /\ Answered(i) /\ handlers[i].reply.status = 500
        /\ Contains(handlers[i].reply.body, "G")
        /\ Answers(i) # {}

IsUnknownMethod(i) ==
    /\ lines[i].json \in {"object", "scalar"}
    /\ lines[i].method \notin {Str("get_info"), Str("generate_image")}

\* C9: a request whose method is neither get_info nor generate_image is
\* answered with {id: its id, error: {message: "Unknown method: <name>"}},
\* issues no provider request and writes no file.
C9_UnknownMethodError ==
    \A i \in Handled :
        IsUnknownMethod(i)
        => /\ Cardinality(Answers(i)) = 1
           /\ \A k \in Answers(i) :
                 /\ output[k].id = lines[i].id
                 /\ output[k].kind = "error"
                 /\ output[k].text = <<"Unknown method: ", lines[i].method[2]>>
           /\ ~Fetched(i)
           /\ FilesOf(i) = {}

\* method "foo" with an id has been answered
C9_Witness ==
    \E i \in Handled :
        /\ lines[i].method = Str("foo")
        /\ lines[i].id # Undef
        /\ Answers(i) # {}

\* C10: after the input stream closed no line is dispatched and the HTTP
\* server has been asked to close; status 0 is produced only once the HTTP
\* server has closed, and never while the input stream is open.
C10_ShutdownOrdering ==
    /\ [](~stdinOpen => httpState \in {"closing", "closed"})
    /\ [](exitCode = 0 => ~stdinOpen /\ httpState = "closed" /\ conns = 0)
    /\ [][~stdinOpen => lines' = lines /\ Len(handlers') = Len(handlers)]_vars

\* the process exited with status 0 after a line was handled
C10_Witness ==
    /\ exitCode = 0
    /\ Len(lines) >= 1

\* the text of SERVER_PORT (or its default) is a decimal integer
PortIsInteger == OrDefault(env.SERVER_PORT, DefaultPort) \in {"8080", "9981"}

\* C11: with the API key absent or a port value that is not an integer the
\* process terminates with status 1, the HTTP server never listens and no
\* input line is handled or answered.
C11_StartupFailsFast ==
    (env.GEMINI_API_KEY = "" \/ ~PortIsInteger)
    => /\ proc # "serving"
       /\ proc = "exited" => exitCode = 1
       /\ httpState = "off"
       /\ lines = <<>>
       /\ output = <<>>

IsGetInfo(i) == lines[i].json = "object" /\ lines[i].method = Str("get_info")

\* C12: every get_info request is answered with {id, result: descriptor},
\* the descriptor is the same in every answer whatever ran before, and
\* handling it issues no provider request and changes no file.
C12_GetInfoPure ==
    /\ [](\A i \in Handled :
            IsGetInfo(i)
            => /\ Cardinality(Answers(i)) = 1
               /\ \A k \in Answers(i) :
                     /\ output[k].kind = "result"
                     /\ output[k].id = lines[i].id
                     /\ output[k].text =
                          <<"server_info", "imagen3-mcp", "0.1.0", "instructions", "capabilities">>
               /\ ~Fetched(i)
               /\ FilesOf(i) = {})
    /\ [][(/\ Len(lines') = Len(lines) + 1
           /\ lines'[Len(lines')].json = "object"
           /\ lines'[Len(lines')].method = Str("get_info"))
          => disk' = disk /\ netCalls' = netCalls]_vars

\* get_info answered after an earlier generate_image wrote a file
C12_Witness ==
    /\ Len(lines) = 2
    /\ IsGetInfo(2)
    /\ Answers(2) # {}
    /\ FilesOf(1) # {}

\* C13 as stated: every listed filename, fetched at any moment, is found
\* and yields exactly the bytes persist wrote for it (the complete file),
\* also while that file is being written.
C13_Original ==
    got.done => got.body # {} /\ \A f \in got.body : f.full

\* C13 (amended): every listed filename is found by GET /images/<filename>
\* and its content comes from a write of that name; it yields exactly the
\* bytes persist wrote once the write has completed, and may be incomplete
\* while the write is in progress or after it failed.
C13_ListedIsRetrievable ==
    [][(~got.done /\ got'.done)
       => /\ got'.name \in listing.names
          /\ Cardinality(got'.body) = 1
          /\ \A f \in got'.body :
                /\ \E w \in writes : w.name = f.name /\ w.src = f.src /\ w.k = f.k
                /\ (/\ Len(handlers[f.src].filenames) >= f.k
                    /\ handlers[f.src].filenames[f.k] = f.name) => f.full]_vars

\* a listed file fetched after its write completed
C13_Witness ==
    /\ got.done
    /\ \E f \in got.body : f.full

\* decoding or writing failed on a prediction of line i's batch
FailedInBatch(i) ==
    /\ handlers[i].pc = "done"
    /\ GoodReply(i)
    /\ NPred(i) >= 1
    /\ Len(handlers[i].filenames) < NPred(i)

\* C14: when decoding or writing fails on prediction k of a batch, the
\* files written for predictions 1..k-1 remain on disk, no write is
\* attempted for predictions k+1..N, and the answer is an error string that
\* contains none of the URLs of the files written.
C14_PartialPersistence ==
    \A i \in Handled :
        FailedInBatch(i)
        => LET h == handlers[i]
               k == Len(h.filenames) + 1
           IN  /\ \A j \in 1..Len(h.filenames) :
                     \E f \in disk : f.name = h.filenames[j]
               /\ \A w \in writes : w.src = i => w.k <= k
               /\ Cardinality(Answers(i)) = 1
               /\ \A a \in Answers(i) :
                     /\ output[a].kind = "result"
                     /\ output[a].text[1] = "Error generating image: "
                     /\ ~Contains(output[a].text, "http://")
                     /\ \A j \in 1..Len(h.filenames) :
                           ~HasRun(output[a].text, Url(h.filenames[j]))

\* the write of the second prediction failed after the first was written
C14_Witness ==
    \E i \in Handled :
        /\ FailedInBatch(i)
        /\ handlers[i].fsError
        /\ Len(handlers[i].filenames) = 1
        /\ \E f \in disk : f.name = handlers[i].filenames[1] /\ f.full

C16_DispatchNotSerialized ==
    /\ (proc = "serving" /\ stdinOpen /\ Len(lines) < HostMaxLines)
         => ENABLED (\E l \in HostLines : ReadLine(l))
    /\ \A i \in Handled : Dispatch(lines[i]).step = "respond" => Answers(i) # {}

\* the second line is answered while the first still waits on the provider
C16_Witness ==
    /\ Len(lines) = 2
    /\ handlers[1].pc = "fetching"
    /\ Answers(1) = {}
    /\ Answers(2) # {}

\* C17: a generate_image request dispatched before the input stream closed
\* is answered before the process exits with status 0.
C17_InFlightAnsweredBeforeExit ==
    exitCode = 0
    => \A i \in Handled : Fetched(i) => handlers[i].pc = "done" /\ Answers(i) # {}

\* C18 as stated: once the input stream has closed the process eventually
\* exits with status 0, whatever HTTP clients and the provider do.
C18_Original == ~stdinOpen ~> exitCode = 0

\* C18 (amended): once the input stream has closed and no HTTP connection
\* is open, the process eventually exits with status 0, whether or not a
\* provider call is still pending.
C18_ExitOnceConnectionsEnd == (~stdinOpen /\ conns = 0) ~> exitCode = 0

\* exit with status 0 while a provider call is pending
C18_Witness ==
    /\ exitCode = 0
    /\ \E i \in Handled : handlers[i].pc = "fetching"

\* the reply fails one of the checks made before the loop (main.ts 305-327)
FailsCheck(r) ==
    \/ ~r.net
    \/ r.status \notin 200..299
    \/ r.body[1] # "{"
    \/ Contains(r.body, "error:boom")
    \/ \A p \in 1..Len(r.body) : r.body[p] \notin {"G", "B"}

\* C19: no file is written unless the provider response passed every check
\* (success status, JSON body, no error object, at least one prediction);
\* a 200 body with both an error object and predictions is answered with
\* the provider API error message and writes no file.
C19_ChecksBeforeWrites ==
    /\ \A w \in writes : Answered(w.src) /\ ~FailsCheck(handlers[w.src].reply)
    /\ \A i \in Handled :
          (Answered(i) /\ FailsCheck(handlers[i].reply))
          => /\ FilesOf(i) = {}
             /\ handlers[i].filenames = <<>>
             /\ handlers[i].pc = "done"
             /\ (/\ handlers[i].reply.net
                 /\ handlers[i].reply.status \in 200..299
                 /\ handlers[i].reply.body[1] = "{"
                 /\ Contains(handlers[i].reply.body, "error:boom"))
                => \A a \in Answers(i) :
                      output[a].text = <<"Error generating image: ", "Gemini API Error: ", "boom">>

\* a 200 body with an error object and a prediction has been answered
C19_Witness ==
    \E i \in Handled :
        /\ Answered(i)
        /\ handlers[i].reply.status = 200
        /\ Contains(handlers[i].reply.body, "error:boom")
        /\ Contains(handlers[i].reply.body, "G")
        /\ Answers(i) # {}
        /\ disk = {}

\* C20 as stated: no two writes target the same filename.
C20_Original ==
    \A w1, w2 \in writes : w1 # w2 => w1.name # w2.name

\* C20 (amended): two writes target the same filename only when nanoid
\* drew the same token for both within the same second, and a complete file
\* is replaced only by such a second write to its name; nothing else
\* changes a file once written.
C20_CollisionOnlyOnEqualToken ==
    /\ [](\A w1, w2 \in writes :
            w1.name = w2.name => w1.tok = w2.tok /\ w1.ts = w2.ts)
    /\ [][\A f \in disk :
            f.full => \/ f \in disk'
                      \/ \E w \in writes :
                            /\ w.name = f.name
                            /\ w.tok = f.name[1]
                            /\ w.src # f.src \/ w.k # f.k]_vars

\* two overlapping requests wrote different files within the same second
C20_Witness ==
    \E w1, w2 \in writes :
        /\ w1.src # w2.src
        /\ w1.ts = w2.ts
        /\ w1.name # w2.name
        /\ \E f \in disk : f.name = w1.name /\ f.full
        /\ \E f \in disk : f.name = w2.name /\ f.full

\* the provider requests issued for line i
CallsOf(i) == {c \in 1..Len(netCalls) : netCalls[c].src = i}

\* generate_image's own validation let the arguments of line i through
ValidationPasses(i) ==
    /\ IsGenerate(i)
    /\ lines[i].params.present
    /\ ~(Truthy(lines[i].params.aspect_ratio) /\ ~Includes(lines[i].params.aspect_ratio))

ValidationFails(i) ==
    /\ IsGenerate(i)
    /\ lines[i].params.present
    /\ Truthy(lines[i].params.aspect_ratio)
    /\ ~Includes(lines[i].params.aspect_ratio)

\* a provider request is issued only while a line is read, for that line,
\* and the step in which a call settles issues none; a failed call is
\* answered in that same step with the error text
NoSecondAttempt ==
    [][/\ netCalls' # netCalls
          => /\ Len(lines') = Len(lines) + 1
             /\ Len(netCalls') = Len(netCalls) + 1
             /\ netCalls'[Len(netCalls')].src = Len(lines')
             /\ SubSeq(netCalls', 1, Len(netCalls)) = netCalls
       /\ \A i \in 1..Len(handlers) :
             (handlers[i].pc = "fetching" /\ handlers'[i].pc # "fetching")
             => /\ netCalls' = netCalls
                /\ FailsCheck(handlers'[i].reply)
                   => /\ handlers'[i].pc = "done"
                      /\ Len(output') = Len(output) + 1
                      /\ output'[Len(output')].src = i
                      /\ output'[Len(output')].kind = "result"
                      /\ output'[Len(output')].text[1] = "Error generating image: "]_vars

\* C21 as stated: each generate_image invocation performs at most one
\* provider call, exactly one when validation passes and none when it
\* fails, and a failure of the call is answered at once, with no second
\* attempt.
C21_Original ==
    \A i \in Handled :
        /\ Cardinality(CallsOf(i)) <= 1
        /\ ValidationPasses(i) => Cardinality(CallsOf(i)) = 1
        /\ ValidationFails(i) => CallsOf(i) = {}

\* C21 (amended): each generate_image invocation performs at most one
\* provider call: exactly one when the aspect-ratio validation passes and
\* the params carry a prompt, none when validation fails or the prompt is
\* missing; no other line performs one, and a failure of the call is
\* answered at once, with no second attempt.
C21_NoRetries ==
    /\ [](\A i \in Handled :
            /\ Cardinality(CallsOf(i)) <= 1
            /\ (ValidationPasses(i) /\ lines[i].params.prompt # Undef)
                  => Cardinality(CallsOf(i)) = 1
            /\ (ValidationFails(i) \/ lines[i].params.prompt = Undef \/ ~IsGenerate(i))
                  => CallsOf(i) = {})
    /\ NoSecondAttempt

\* a call that failed on the network has been answered after one request
C21_Witness ==
    \E i \in Handled :
        /\ Answered(i)
        /\ ~handlers[i].reply.net
        /\ Cardinality(CallsOf(i)) = 1
        /\ \E a \in Answers(i) : output[a].text[1] = "Error generating image: "

\* the fs.writeFile calls made for line i
WritesOf(i) == {w \in writes : w.src = i}

\* line i was answered with URLs
AnsweredWithUrls(i) ==
    /\ handlers[i].pc = "done"
    /\ \E a \in Answers(i) : output[a].kind = "result" /\ output[a].text[1] = "http://"

\* the filename in the j-th URL of a newline-joined URL list
NameInUrl(text, j) == SubSeq(text, 10 * (j - 1) + 6, 10 * (j - 1) + 9)

\* the answer to line i lists, in prediction order, the files line i wrote
\* and no more
OwnFilesInOrder(i) ==
    LET n == Cardinality(WritesOf(i))
    IN  \A a \in Answers(i) :
           /\ Len(output[a].text) = 10 * n - 1
           /\ \A j \in 1..n :
                 /\ \E w \in WritesOf(i) : w.k = j /\ w.name = NameInUrl(output[a].text, j)
                 /\ \E f \in disk : f.name = NameInUrl(output[a].text, j)

\* C22 as stated: the URLs answered to a request name exactly the files
\* that request wrote, in prediction order, and never the name of a file
\* written for another request.
C22_Original ==
    \A i \in Handled :
        AnsweredWithUrls(i)
        => /\ OwnFilesInOrder(i)
           /\ \A w \in writes :
                 w.src # i => \A a \in Answers(i) : ~HasRun(output[a].text, w.name)

\* C22 (amended): when generate_image requests overlap, the URLs answered
\* to a request name exactly the files that request wrote, in prediction
\* order, and a successfully answered request omits none of them; the
\* answer holds a filename written for another request only when nanoid
\* drew, within the same second, the token of one of its own files.
C22_IsolationOfGenerations ==
    \A i \in Handled :
        AnsweredWithUrls(i)
        => /\ OwnFilesInOrder(i)
           /\ \A w \in writes :
                 (w.src # i /\ \E a \in Answers(i) : HasRun(output[a].text, w.name))
                 => \E v \in WritesOf(i) : v.tok = w.tok /\ v.ts = w.ts

\* two overlapping requests, the later one answered first, each answered
\* with the two files it wrote
C22_Witness ==
    /\ Len(output) = 2
    /\ output[1].src = 2
    /\ output[2].src = 1
    /\ AnsweredWithUrls(1)
    /\ AnsweredWithUrls(2)
    /\ Cardinality(WritesOf(1)) = 2
    /\ Cardinality(WritesOf(2)) = 2
    /\ Cardinality({w.name : w \in writes}) = 4

KeyText == "GEMINI_API_KEY environment variable not set"

\* C23: whenever the loop handles a line the API key is set, startup having
\* exited with status 1 otherwise; the generation client's own check never
\* fires, so every generate_image that passes validation with a prompt
\* reaches the provider and no response carries the text
\* "GEMINI_API_KEY environment variable not set".
C23_ApiKeyAlwaysSet ==
    /\ (proc = "serving" \/ lines # <<>>) => env.GEMINI_API_KEY # ""
    /\ env.GEMINI_API_KEY = ""
          => /\ lines = <<>>
             /\ proc = "exited" => exitCode = 1
    /\ \A k \in 1..Len(output) : ~Contains(output[k].text, KeyText)
    /\ \A i \in Handled :
          (ValidationPasses(i) /\ lines[i].params.prompt # Undef) => Fetched(i)

\* under an arbitrary startup environment a generate_image line reached
\* the provider and was answered
C23_Witness ==
    /\ world = "boot"
    /\ \E i \in Handled : IsGenerate(i) /\ Fetched(i) /\ Answers(i) # {}

====
